---- MODULE Spec2Model ----
(***************************************************************************)
(* Model of @softwareventures/format-timestamp (src/index.ts).             *)
(*                                                                         *)
(* Strings are sequences of one-character strings, so that padStart,       *)
(* substr and join are computed character by character.                    *)
(*                                                                         *)
(* The seconds field of a Timestamp is a real number.  It is modelled as   *)
(* an exact multiple of 1/(1000*SubMs) second ("ticks"), i.e. with SubMs   *)
(* steps inside every millisecond; arithmetic on it is exact (the rounding *)
(* error of IEEE doubles is not modelled).                                 *)
(*                                                                         *)
(* JsDate (imported from ./js-date) is the ECMAScript Date object: a time  *)
(* value in whole milliseconds, or NaN.  A time value is modelled as a day *)
(* number and the milliseconds within that day.                            *)
(***************************************************************************)
EXTENDS Integers, Sequences, FiniteSets, TLC

\* Steps per millisecond in the representation of fractional seconds.
SubMs == 5

\* Milliseconds per second: the factor of `* 1000` and `/ 1000`.
msPerSecond == 1000

TicksPerSec == msPerSecond * SubMs

msPerMinute == 60 * msPerSecond
msPerHour == 60 * msPerMinute
msPerDay == 24 * msPerHour

\* ECMAScript time values range over -100,000,000 .. 100,000,000 days
\* around 1970-01-01T00:00:00Z.
MaxDateDay == 10000 * 10000

-----------------------------------------------------------------------------
(* Strings                                                                 *)

DigitChars == <<"0", "1", "2", "3", "4", "5", "6", "7", "8", "9">>

RECURSIVE NatToStr(_)
NatToStr(n) ==
    IF n < 10 THEN <<DigitChars[n + 1]>>
    ELSE NatToStr(n \div 10) \o <<DigitChars[(n % 10) + 1]>>

\* String(n) for an integer n
String(n) == IF n < 0 THEN <<"-">> \o NatToStr(0 - n) ELSE NatToStr(n)

\* String(NaN)
NaNStr == <<"N", "a", "N">>

\* s.padStart(len, ch)
padStart(s, len, ch) ==
    IF Len(s) >= len THEN s ELSE [i \in 1..(len - Len(s)) |-> ch] \o s

\* s.substr(from) and s.substr(from, length), from counted from 0
substr(s, from, length) ==
    SubSeq(s, from + 1, IF from + length > Len(s) THEN Len(s) ELSE from + length)

substrFrom(s, from) == SubSeq(s, from + 1, Len(s))

-----------------------------------------------------------------------------
(* Calendar arithmetic of ECMAScript time values                           *)

\* Day number (days since 1970-01-01) of the proleptic Gregorian date
\* y-m-d, m in 1..12; d may lie outside the month.
DaysFromCivil(y, m, d) ==
    LET yy == IF m <= 2 THEN y - 1 ELSE y
        era == yy \div 400
        yoe == yy - era * 400
        mp == IF m > 2 THEN m - 3 ELSE m + 9
        doy == (153 * mp + 2) \div 5 + d - 1
        doe == yoe * 365 + yoe \div 4 - yoe \div 100 + doy
    IN  era * 146097 + doe - 719468

\* Year, month (1..12) and day of month of a day number.
CivilFromDays(z) ==
    LET zz == z + 719468
        era == zz \div 146097
        doe == zz - era * 146097
        yoe == (doe - doe \div 1460 + doe \div 36524 - doe \div 146096) \div 365
        doy == doe - (365 * yoe + yoe \div 4 - yoe \div 100)
        mp == (5 * doy + 2) \div 153
        d == doy - (153 * mp + 2) \div 5 + 1
        m == IF mp < 10 THEN mp + 3 ELSE mp - 9
    IN  [year |-> yoe + era * 400 + (IF m <= 2 THEN 1 ELSE 0), month |-> m, day |-> d]

\* MakeDay(year, month, date), month counted from 0 and carried into the year
MakeDay(year, month, date) ==
    DaysFromCivil(year + month \div 12, (month % 12) + 1, 1) + date - 1

NaNTime == [valid |-> FALSE, day |-> 0, ms |-> 0]

\* TimeClip(MakeDate(day, time)): the time value day*msPerDay + time, or NaN
\* when it lies outside +-8.64e15 ms.
MakeDateClipped(day, time) ==
    LET d == day + time \div msPerDay
        t == time % msPerDay
    IN  IF d >= 0 - MaxDateDay /\ (d < MaxDateDay \/ (d = MaxDateDay /\ t = 0))
        THEN [valid |-> TRUE, day |-> d, ms |-> t]
        ELSE NaNTime

-----------------------------------------------------------------------------
(* JsDate: the ECMAScript Date object                                      *)

\* jsDate.setUTCFullYear(year, month, date): the date is replaced, the time
\* within the day is kept; a NaN time value counts as +0.
setUTCFullYear(t, year, month, date) ==
    MakeDateClipped(MakeDay(year, month, date), IF t.valid THEN t.ms ELSE 0)

\* jsDate.setUTCHours(hours, minutes, seconds, ms): the time within the day
\* is replaced, the day is kept; a NaN time value stays NaN.  The ms
\* argument is a real number, given here in ticks (1/SubMs ms); MakeTime
\* truncates it to a whole number of milliseconds.
setUTCHours(t, hours, minutes, seconds, msTicks) ==
    IF ~t.valid THEN NaNTime
    ELSE MakeDateClipped(t.day,
            hours * msPerHour + minutes * msPerMinute + seconds * msPerSecond
            + msTicks \div SubMs)

\* The host's timezone configuration is a standard offset from UTC in
\* minutes and whether daylight saving time (one hour, April to September
\* of the UTC calendar) is observed.  LocalTZA(t) in milliseconds:
LocalTZA(zone, t) ==
    LET month == CivilFromDays(t.day).month
    IN  (zone.std + (IF zone.dst /\ month \in 4..9 THEN 60 ELSE 0)) * msPerMinute

\* LocalTime(t) = t + LocalTZA(t), as day number and milliseconds in the day
LocalTime(zone, t) ==
    LET ms == t.ms + LocalTZA(zone, t)
    IN  [day |-> t.day + ms \div msPerDay, ms |-> ms % msPerDay]

getFullYear(zone, t) == CivilFromDays(LocalTime(zone, t).day).year
getMonth(zone, t) == CivilFromDays(LocalTime(zone, t).day).month - 1
getDate(zone, t) == CivilFromDays(LocalTime(zone, t).day).day
getHours(zone, t) == LocalTime(zone, t).ms \div msPerHour
getMinutes(zone, t) == (LocalTime(zone, t).ms \div msPerMinute) % 60
getSeconds(zone, t) == (LocalTime(zone, t).ms \div msPerSecond) % 60
getMilliseconds(zone, t) == LocalTime(zone, t).ms % msPerSecond

-----------------------------------------------------------------------------
(* Timestamps (@softwareventures/timestamp)                                *)

\* A Timestamp; seconds in ticks.  nan marks the record whose fields are
\* all NaN (the fields read from an invalid JsDate).
Timestamp(year, month, day, hours, minutes, seconds) ==
    [nan |-> FALSE, year |-> year, month |-> month, day |-> day,
     hours |-> hours, minutes |-> minutes, seconds |-> seconds]

NaNTimestamp ==
    [nan |-> TRUE, year |-> 0, month |-> 0, day |-> 0,
     hours |-> 0, minutes |-> 0, seconds |-> 0]

\* normalize(timestamp): carries fields that lie outside their range into
\* the higher fields; the identity on fields that are in range.
normalize(ts) ==
    IF ts.nan THEN NaNTimestamp
    ELSE
    LET minutes == ts.minutes + ts.seconds \div (60 * TicksPerSec)
        hours == ts.hours + minutes \div 60
        date == MakeDay(ts.year, ts.month - 1, ts.day) + hours \div 24
        civil == CivilFromDays(date)
    IN  Timestamp(civil.year, civil.month, civil.day, hours % 24, minutes % 60,
                  ts.seconds % (60 * TicksPerSec))

-----------------------------------------------------------------------------
(* Field formatters                                                        *)

\* String(x) for a number x that is NaN or the integer n
NumStr(nan, n) == IF nan THEN NaNStr ELSE String(n)

\* formatDate.year4, formatDate.month2, formatDate.day2
\* (@softwareventures/format-date): the decimal string of the field,
\* zero-padded to at least four, two and two digits.
year4(ts) == padStart(NumStr(ts.nan, ts.year), 4, "0")
month2(ts) == padStart(NumStr(ts.nan, ts.month), 2, "0")
day2(ts) == padStart(NumStr(ts.nan, ts.day), 2, "0")

hours(ts) == NumStr(ts.nan, ts.hours)

hours2(ts) == padStart(NumStr(ts.nan, ts.hours), 2, "0")

hours12(ts) == NumStr(ts.nan, (12 + (ts.hours % 12)) % 12)

hours122(ts) == padStart(NumStr(ts.nan, (12 + (ts.hours % 12)) % 12), 2, "0")

\* amPm with <= in place of <
amPmNoonAm(ts) == IF ~ts.nan /\ ts.hours <= 12 THEN <<"A", "M">> ELSE <<"P", "M">>

\* NaN < 12 is false
amPm(ts) == IF ~ts.nan /\ ts.hours < 12 THEN <<"A", "M">> ELSE <<"P", "M">>

minutes(ts) == NumStr(ts.nan, ts.minutes)

minutes2(ts) == padStart(NumStr(ts.nan, ts.minutes), 2, "0")

\* Math.floor(timestamp.seconds)
floorOfSeconds(ts) == ts.seconds \div TicksPerSec

floorSeconds(ts) == NumStr(ts.nan, floorOfSeconds(ts))

\* floorSeconds2 with Math.round in place of Math.floor
floorSeconds2Rounding(ts) ==
    padStart(NumStr(ts.nan, (2 * ts.seconds + TicksPerSec) \div (2 * TicksPerSec)), 2, "0")

floorSeconds2(ts) == padStart(NumStr(ts.nan, floorOfSeconds(ts)), 2, "0")

\* Math.floor(timestamp.seconds * 1000)
floorOfMilliseconds(ts) == ts.seconds \div SubMs

\* secondsMs with Math.round in place of Math.floor
secondsMsRounding(ts) ==
    LET s == padStart(NumStr(ts.nan, (2 * ts.seconds + SubMs) \div (2 * SubMs)), 5, "0")
    IN  substr(s, 0, 2) \o <<".">> \o substrFrom(s, 2)

secondsMs(ts) ==
    LET s == padStart(NumStr(ts.nan, floorOfMilliseconds(ts)), 5, "0")
    IN  substr(s, 0, 2) \o <<".">> \o substrFrom(s, 2)

\* formatter(timestamp); a TimestampFormatter value is represented by its
\* name.
Apply(formatter, ts) ==
    CASE formatter = "year4" -> year4(ts)
      [] formatter = "month2" -> month2(ts)
      [] formatter = "day2" -> day2(ts)
      [] formatter = "hours" -> hours(ts)
      [] formatter = "hours2" -> hours2(ts)
      [] formatter = "hours12" -> hours12(ts)
      [] formatter = "hours122" -> hours122(ts)
      [] formatter = "amPm" -> amPm(ts)
      [] formatter = "minutes" -> minutes(ts)
      [] formatter = "minutes2" -> minutes2(ts)
      [] formatter = "floorSeconds" -> floorSeconds(ts)
      [] formatter = "floorSeconds2" -> floorSeconds2(ts)
      [] formatter = "secondsMs" -> secondsMs(ts)

-----------------------------------------------------------------------------
(* Template composition                                                    *)

\* An element of the array built by concatMap: a string or undefined.
Part(str) == [undefined |-> FALSE, str |-> str]
Undefined == [undefined |-> TRUE, str |-> << >>]

\* formatters[i]?.(timestamp), i counted from 0
CallFormatter(formatters, i, ts) ==
    IF i + 1 \in DOMAIN formatters THEN Part(Apply(formatters[i + 1], ts))
    ELSE Undefined

\* concatMap with the pair reversed: [formatters[i]?.(timestamp), text]
concatMapReversed(texts, formatters, ts) ==
    [k \in 1..(2 * Len(texts)) |->
        IF k % 2 = 0 THEN Part(texts[k \div 2])
        ELSE CallFormatter(formatters, (k + 1) \div 2 - 1, ts)]

\* concatMap(texts, (text, i) => [text, formatters[i]?.(timestamp)])
concatMap(texts, formatters, ts) ==
    [k \in 1..(2 * Len(texts)) |->
        IF k % 2 = 1 THEN Part(texts[(k + 1) \div 2])
        ELSE CallFormatter(formatters, k \div 2 - 1, ts)]

\* parts.join(""): undefined elements are joined as the empty string
RECURSIVE join(_)
join(parts) ==
    IF parts = << >> THEN << >>
    ELSE (IF Head(parts).undefined THEN << >> ELSE Head(parts).str) \o join(Tail(parts))

\* The result of a call: the string returned, or an exception thrown.
Returned(str) == [threw |-> FALSE, text |-> str]
Threw == [threw |-> TRUE, text |-> << >>]

\* timestampTemplate with a check of its arguments
timestampTemplateChecked(texts, formatters) ==
    [kind |-> "utc", texts |-> texts, formatters |-> formatters,
     error |-> Len(texts) # Len(formatters) + 1]

\* timestampTemplate(texts, ...formatters): the closure returned; error
\* tells whether the call itself threw.
timestampTemplate(texts, formatters) ==
    [kind |-> "utc", texts |-> texts, formatters |-> formatters, error |-> FALSE]

\* deviceLocalTimestampTemplate(texts, ...formatters)
deviceLocalTimestampTemplate(texts, formatters) ==
    [kind |-> "local", texts |-> texts, formatters |-> formatters, error |-> FALSE]

\* The closure of timestampTemplate applied to timestamp
invokeTimestampTemplate(texts, formatters, timestamp) ==
    Returned(join(concatMap(texts, formatters, timestamp)))

\* The local Timestamp computed by the closure of
\* deviceLocalTimestampTemplate, before normalize: now is the time value of
\* new JsDate(), zone the host's timezone configuration.
localFields(timestamp, now, zone) ==
    LET seconds == timestamp.seconds \div TicksPerSec
        ms == timestamp.seconds - seconds * TicksPerSec
        jsDate0 == now
        jsDate1 == setUTCFullYear(jsDate0, timestamp.year, timestamp.month - 1,
                                  timestamp.day)
        jsDate == setUTCHours(jsDate1, timestamp.hours, timestamp.minutes, seconds, ms)
    IN  IF ~jsDate.valid THEN NaNTimestamp
        ELSE Timestamp(getFullYear(zone, jsDate), getMonth(zone, jsDate) + 1,
                       getDate(zone, jsDate), getHours(zone, jsDate),
                       getMinutes(zone, jsDate),
                       getSeconds(zone, jsDate) * TicksPerSec
                       + getMilliseconds(zone, jsDate) * SubMs)

\* const local = normalize({...})
toLocal(timestamp, now, zone) == normalize(localFields(timestamp, now, zone))

\* The closure of deviceLocalTimestampTemplate handing timestamp, not local,
\* to the formatters
invokeDeviceLocalNotLocalised(texts, formatters, timestamp, now, zone, onNaN) ==
    LET local == toLocal(timestamp, now, zone)
    IN  IF local.nan /\ onNaN = "throws" THEN Threw
        ELSE Returned(join(concatMap(texts, formatters, timestamp)))

\* The closure of deviceLocalTimestampTemplate applied to timestamp;
\* onNaN is what normalize does with NaN fields.
invokeDeviceLocalTimestampTemplate(texts, formatters, timestamp, now, zone, onNaN) ==
    LET local == toLocal(timestamp, now, zone)
    IN  IF local.nan /\ onNaN = "throws" THEN Threw
        ELSE Returned(join(concatMap(texts, formatters, local)))

IsoTexts == << << >>, <<"-">>, <<"-">>, <<"T">>, <<":">>, <<":">>, <<"Z">> >>
LocalIsoTexts == << << >>, <<"-">>, <<"-">>, <<"T">>, <<":">>, <<":">>, << >> >>
IsoFormatters == <<"year4", "month2", "day2", "hours2", "minutes2", "floorSeconds2">>

iso8601 == timestampTemplate(IsoTexts, IsoFormatters)

deviceLocalIso8601 == deviceLocalTimestampTemplate(LocalIsoTexts, IsoFormatters)

-----------------------------------------------------------------------------
(* Inputs                                                                  *)

\* A seconds value in ticks: ms whole milliseconds and sub further ticks
Ticks(ms, sub) == ms * SubMs + sub

\* 0, 0.0002, 0.001, 1, 1.0012, 1.0018, 9.9998, 22.0018, 59.999, 59.9998
\* (for SubMs = 5)
SecondsSamples ==
    {Ticks(0, 0), Ticks(0, 1), Ticks(1, 0), Ticks(1000, 0), Ticks(1001, 1),
     Ticks(1001, 4), Ticks(9999, 4), Ticks(22001, 4), Ticks(59999, 0),
     Ticks(59999, 4)}

Timestamps ==
    {Timestamp(2021, 5, 1, 11, 58, Ticks(27239, 0)),
     Timestamp(10000, 1, 1, 0, 0, 0),
     Timestamp(1994, 11, 5, 13, 15, Ticks(30000, 0)),
     Timestamp(7, 12, 31, 23, 59, Ticks(59999, 4)),
     Timestamp(0, 1, 1, 0, 0, Ticks(1, 0)),
     \* the last day of the range of ECMAScript time values, and beyond it
     Timestamp(275760, 9, 13, 0, 0, 0),
     Timestamp(275761, 1, 1, 0, 0, 0)}
    \cup {Timestamp(2021, 5, 1, h, 58, Ticks(27239, 0)) : h \in 0..23}
    \cup {Timestamp(2024, 2, 29, 12, 0, s) : s \in SecondsSamples}

\* Template literals: texts and the formatters between them.  The last two
\* are calls that are no template literal: too few and too many formatters.
Templates ==
    {[texts |-> IsoTexts, formatters |-> IsoFormatters],
     [texts |-> LocalIsoTexts, formatters |-> IsoFormatters],
     [texts |-> << << >>, << >> >>, formatters |-> <<"secondsMs">>],
     [texts |-> << << >>, << >> >>, formatters |-> <<"hours12">>],
     [texts |-> << << >>, << >> >>, formatters |-> <<"hours122">>],
     [texts |-> << << >>, << >> >>, formatters |-> <<"amPm">>],
     [texts |-> << <<"[">>, <<"|">>, <<"]">> >>, formatters |-> <<"hours", "minutes">>],
     [texts |-> << <<"[">>, <<"|">>, <<"]">> >>, formatters |-> <<"hours2">>],
     [texts |-> << <<"<">> >>, formatters |-> <<"floorSeconds", "minutes2">>]}

\* Host timezone configurations: UTC, and UTC-3:30 with daylight saving
\* time.
Zones == {[std |-> 0, dst |-> FALSE], [std |-> 0 - 210, dst |-> TRUE]}

\* Wall-clock times read by new JsDate(): 2025-11-01T00:00:00.000Z and
\* 2024-02-29T12:34:56.789Z.
Nows ==
    {[valid |-> TRUE, day |-> DaysFromCivil(2025, 11, 1), ms |-> 0],
     [valid |-> TRUE, day |-> DaysFromCivil(2024, 2, 29),
      ms |-> 12 * msPerHour + 34 * msPerMinute + 56 * msPerSecond + 789]}

-----------------------------------------------------------------------------
(* State                                                                   *)

VARIABLES
    formatter,      \* the composed TimestampFormatter in use
    timestamp,      \* the Timestamp the caller formats
    zone,           \* the host's timezone configuration
    normalizeNaN,   \* what normalize does with NaN fields: "nan" or "throws"
    calls           \* the last two calls formatter(timestamp), oldest first

vars == <<formatter, timestamp, zone, normalizeNaN, calls>>

Init ==
    /\ formatter = iso8601
    /\ timestamp \in Timestamps
    /\ zone \in Zones
    /\ normalizeNaN \in {"nan", "throws"}
    /\ calls = << >>

\* const format = timestampTemplate`...`
TimestampTemplate ==
    \E t \in Templates :
        /\ formatter' = timestampTemplate(t.texts, t.formatters)
        /\ calls' = << >>
        /\ UNCHANGED <<timestamp, zone, normalizeNaN>>

\* const formatDeviceLocal = deviceLocalTimestampTemplate`...`
DeviceLocalTimestampTemplate ==
    \E t \in Templates :
        /\ formatter' = deviceLocalTimestampTemplate(t.texts, t.formatters)
        /\ calls' = << >>
        /\ UNCHANGED <<timestamp, zone, normalizeNaN>>

\* The host's timezone configuration changes.
SetTimezone ==
    /\ zone' \in Zones \ {zone}
    /\ UNCHANGED <<formatter, timestamp, normalizeNaN, calls>>

\* formatter(timestamp), at wall-clock time now
Invoke ==
    \E now \in Nows :
        LET out == IF formatter.kind = "utc"
                   THEN invokeTimestampTemplate(formatter.texts, formatter.formatters,
                                                timestamp)
                   ELSE invokeDeviceLocalTimestampTemplate(
                            formatter.texts, formatter.formatters, timestamp, now,
                            zone, normalizeNaN)
            \* what the call read of the host, the Timestamp it handed to the
            \* formatters, and what it returned
            call == [env |-> IF formatter.kind = "utc" THEN << >> ELSE <<now, zone>>,
                     received |-> IF formatter.kind = "utc" THEN timestamp
                                  ELSE toLocal(timestamp, now, zone),
                     out |-> out]
        IN  /\ ~formatter.error
            /\ calls' = IF Len(calls) < 2 THEN Append(calls, call)
                        ELSE <<calls[2], call>>
            /\ UNCHANGED <<formatter, timestamp, zone, normalizeNaN>>

Next ==
    \/ TimestampTemplate
    \/ DeviceLocalTimestampTemplate
    \/ SetTimezone
    \/ Invoke

Spec == Init /\ [][Next]_vars

-----------------------------------------------------------------------------
(* Properties                                                              *)

Called == calls # << >>
Last == calls[Len(calls)]

\* Decimal digits, computed place by place
Digit(n, place) == DigitChars[((n \div place) % 10) + 1]
TwoDigits(n) == <<Digit(n, 10), Digit(n, 1)>>
ThreeDigits(n) == <<Digit(n, 100), Digit(n, 10), Digit(n, 1)>>
FourDigits(n) == <<Digit(n, 1000), Digit(n, 100), Digit(n, 10), Digit(n, 1)>>
\* At least four digits, and as many as y has (y < 10^9)
YearDigits(y) ==
    LET n == CHOOSE k \in 4..9 : y < 10 ^ k /\ (k = 4 \/ y >= 10 ^ (k - 1))
    IN  [i \in 1..n |-> Digit(y, 10 ^ (n - i))]

Normalized(ts) ==
    /\ ~ts.nan
    /\ ts.month \in 1..12
    /\ ts.day \in 1..31
    /\ ts.hours \in 0..23
    /\ ts.minutes \in 0..59
    /\ ts.seconds >= 0
    /\ ts.seconds < 60 * TicksPerSec

IsoExpected(ts) ==
    YearDigits(ts.year) \o <<"-">> \o TwoDigits(ts.month) \o <<"-">>
    \o TwoDigits(ts.day) \o <<"T">> \o TwoDigits(ts.hours) \o <<":">>
    \o TwoDigits(ts.minutes) \o <<":">> \o TwoDigits(ts.seconds \div TicksPerSec)
    \o <<"Z">>

\* C1: for a normalized Timestamp with year >= 0, iso8601 returns
\* YYYY-MM-DDThh:mm:ssZ with the year zero-padded to four digits and not
\* truncated, every other field two digits, the seconds truncated to whole
\* seconds.
C1_Iso8601 ==
    (formatter = iso8601 /\ Called /\ Normalized(timestamp) /\ timestamp.year >= 0)
    => Last.out = Returned(IsoExpected(timestamp))

\* 59.9998 seconds are rendered as 59, year 7 as 0007.
C1_Witness ==
    /\ formatter = iso8601
    /\ Called
    /\ timestamp = Timestamp(7, 12, 31, 23, 59, Ticks(59999, 4))
    /\ Last.out.text = <<"0", "0", "0", "7", "-", "1", "2", "-", "3", "1", "T",
                         "2", "3", ":", "5", "9", ":", "5", "9", "Z">>

SecondsMsTemplate == timestampTemplate(<< << >>, << >> >>, <<"secondsMs">>)

\* C2: for 0 <= seconds < 60, secondsMs returns six characters: two digits
\* of whole seconds, a decimal point, three digits of whole milliseconds,
\* both rounded down.
C2_SecondsMs ==
    (formatter = SecondsMsTemplate /\ Called /\ timestamp.seconds >= 0
        /\ timestamp.seconds < 60 * TicksPerSec)
    => /\ ~Last.out.threw
       /\ Len(Last.out.text) = 6
       /\ Last.out.text = TwoDigits(timestamp.seconds \div TicksPerSec) \o <<".">>
                          \o ThreeDigits((timestamp.seconds \div SubMs) % 1000)

\* 1.0018 seconds (for SubMs = 5) are rendered as 01.001.
C2_Witness ==
    /\ formatter = SecondsMsTemplate
    /\ Called
    /\ timestamp.seconds = Ticks(1001, SubMs - 1)
    /\ Last.out.text = <<"0", "1", ".", "0", "0", "1">>

Hours12Template == timestampTemplate(<< << >>, << >> >>, <<"hours12">>)
Hours122Template == timestampTemplate(<< << >>, << >> >>, <<"hours122">>)

\* The hour of the 12-hour clock: 12, 1, ..., 11, 12, 1, ..., 11
TwelveHour(h) == IF h % 12 = 0 THEN 12 ELSE h % 12

\* C3: hours12 and hours122 render the hour of the 12-hour clock, a number
\* in 1..12: hours 0 and 12 as 12, hour 13 as 1 and 01, hour 23 as 11.
C3_Hours12 ==
    /\ (formatter = Hours12Template /\ Called /\ timestamp.hours \in 0..23)
       => Last.out.text = (IF TwelveHour(timestamp.hours) < 10
                           THEN <<Digit(TwelveHour(timestamp.hours), 1)>>
                           ELSE TwoDigits(TwelveHour(timestamp.hours)))
    /\ (formatter = Hours122Template /\ Called /\ timestamp.hours \in 0..23)
       => Last.out.text = TwoDigits(TwelveHour(timestamp.hours))

\* segment[0], formatter[0](ts), segment[1], ..., formatter[n-1](ts), segment[n]
RECURSIVE Interleaving(_, _, _)
Interleaving(texts, formatters, ts) ==
    IF formatters = << >> THEN texts[1]
    ELSE texts[1] \o Apply(formatters[1], ts)
         \o Interleaving(Tail(texts), Tail(formatters), ts)

\* C4: a formatter built by timestampTemplate from n+1 segments and n
\* formatters returns segment[0], formatter[0](ts), ..., formatter[n-1](ts),
\* segment[n] concatenated in this order, every formatter applied to the ts
\* of the call.
C4_Interleaving ==
    (formatter.kind = "utc" /\ Called
        /\ Len(formatter.texts) = Len(formatter.formatters) + 1)
    => /\ Last.received = timestamp
       /\ Last.out = Returned(Interleaving(formatter.texts, formatter.formatters,
                                           timestamp))

C4_Witness ==
    /\ formatter = timestampTemplate(<< <<"[">>, <<"|">>, <<"]">> >>,
                                     <<"hours", "minutes">>)
    /\ Called
    /\ timestamp = Timestamp(1994, 11, 5, 13, 15, Ticks(30000, 0))
    /\ Last.out.text = <<"[", "1", "3", "|", "1", "5", "]">>

Mismatched == Len(formatter.texts) # Len(formatter.formatters) + 1

\* C5 as claimed: a template whose segments are not one more than its
\* formatters is refused when it is composed.
C5_MismatchSignalledAtComposition == Mismatched => formatter.error

\* Every segment in order, each followed by what the formatter of its index
\* returns, if there is one; formatters beyond the segments are not called.
RECURSIVE SilentInterleaving(_, _, _)
SilentInterleaving(texts, formatters, ts) ==
    IF texts = << >> THEN << >>
    ELSE texts[1]
         \o (IF formatters = << >> THEN << >> ELSE Apply(formatters[1], ts))
         \o SilentInterleaving(Tail(texts),
                               IF formatters = << >> THEN << >> ELSE Tail(formatters),
                               ts)

\* C5 amended: a mismatch of segments and formatters is signalled neither
\* when the template is composed nor when the composed formatter is called:
\* the call returns the segments in order, each followed by the result of
\* the formatter of its index if there is one, and surplus formatters are
\* never called.
C5_MismatchNeverSignalled ==
    Mismatched =>
        /\ ~formatter.error
        /\ Called =>
            /\ Last.out.threw => Last.received.nan
            /\ ~Last.out.threw =>
                Last.out.text = SilentInterleaving(formatter.texts,
                                                   formatter.formatters, Last.received)

\* Too few formatters: "[11|]"; nothing is thrown.
C5_Witness ==
    /\ formatter = timestampTemplate(<< <<"[">>, <<"|">>, <<"]">> >>, <<"hours2">>)
    /\ Called
    /\ timestamp = Timestamp(2021, 5, 1, 11, 58, Ticks(27239, 0))
    /\ Last.out = Returned(<<"[", "1", "1", "|", "]">>)

\* C6: a formatter built by deviceLocalTimestampTemplate returns what the
\* formatter built by timestampTemplate from the same segments and
\* formatters returns for the localised Timestamp; the formatters receive
\* the localised Timestamp.
C6_LocalEqualsTemplateOfLocal ==
    (formatter.kind = "local" /\ Called) =>
        LET local == toLocal(timestamp, Last.env[1], Last.env[2])
        IN  /\ Last.received = local
            /\ IF local.nan /\ normalizeNaN = "throws" THEN Last.out.threw
               ELSE Last.out = invokeTimestampTemplate(formatter.texts,
                                                       formatter.formatters, local)

\* 2021-05-01T11:58:27.239Z is 09:28:27 on the same day at UTC-3:30 with
\* daylight saving time.
C6_Witness ==
    /\ formatter = deviceLocalTimestampTemplate(IsoTexts, IsoFormatters)
    /\ Called
    /\ timestamp = Timestamp(2021, 5, 1, 11, 58, Ticks(27239, 0))
    /\ Last.env[2].std # 0
    /\ Last.out.text = <<"2", "0", "2", "1", "-", "0", "5", "-", "0", "1", "T",
                         "0", "9", ":", "2", "8", ":", "2", "7", "Z">>

\* C7: two calls of the same composed formatter on equal Timestamps return
\* the same, whatever the wall-clock time of either call, provided (for
\* deviceLocalTimestampTemplate) the timezone configuration is the same.
C7_SameResultTwice ==
    (Len(calls) = 2
        /\ (formatter.kind = "local" => calls[1].env[2] = calls[2].env[2]))
    => calls[1].out = calls[2].out

AmPmTemplate == timestampTemplate(<< << >>, << >> >>, <<"amPm">>)

\* C8: amPm returns "AM" for hours 0..11 and "PM" for hours 12..23.
C8_AmPm ==
    (formatter = AmPmTemplate /\ Called /\ timestamp.hours \in 0..23)
    => Last.out = Returned(IF timestamp.hours \in 0..11 THEN <<"A", "M">>
                           ELSE <<"P", "M">>)

\* Noon is PM.
C8_Witness ==
    /\ formatter = AmPmTemplate
    /\ Called
    /\ timestamp.hours = 12
    /\ Last.out.text = <<"P", "M">>

\* C9: deviceLocalIso8601(ts) followed by "Z" is iso8601 of the localised
\* ts, and is iso8601(ts) when the host's offset from UTC is zero.
C9_LocalIsoIsIsoWithoutZ ==
    (formatter = deviceLocalIso8601 /\ Called) =>
        LET local == toLocal(timestamp, Last.env[1], Last.env[2])
            iso == invokeTimestampTemplate(iso8601.texts, iso8601.formatters, local)
            isoUtc == invokeTimestampTemplate(iso8601.texts, iso8601.formatters,
                                              timestamp)
        IN  /\ IF local.nan /\ normalizeNaN = "throws" THEN Last.out.threw
               ELSE Last.out.text \o <<"Z">> = iso.text
            /\ (Last.env[2].std = 0 /\ ~Last.env[2].dst)
               => (~Last.out.threw /\ Last.out.text \o <<"Z">> = isoUtc.text)

\* C10: the localised seconds have the fractional part of the seconds of
\* the Timestamp given, and lie in [0, 60).
C10_FractionPreserved ==
    (formatter.kind = "local" /\ Called /\ ~Last.received.nan
        /\ timestamp.seconds >= 0 /\ timestamp.seconds < 60 * TicksPerSec)
    => /\ Last.received.seconds % TicksPerSec = timestamp.seconds % TicksPerSec
       /\ Last.received.seconds >= 0
       /\ Last.received.seconds < 60 * TicksPerSec

====
